---- MODULE Spec2Model ----
(***************************************************************************)
(* Model of the PDF-to-Excel converter (convert_clean.py, app.py).         *)
(*                                                                         *)
(* Text is a sequence of one-character strings, so that str.strip,         *)
(* str.split, the "in" substring test and the four regular expressions of  *)
(* parse_text_to_dataframe are computed character by character.            *)
(***************************************************************************)
EXTENDS Integers, Sequences, FiniteSets, TLC

(***************************************************************************)
(* Character classes of Python's re and str on the characters used here.   *)
(***************************************************************************)
Digit == {"0", "1", "2", "3", "4", "5", "6", "7", "8", "9"}

Space == {" ", "\t", "\n"}

Letter ==
  {"A", "B", "C", "D", "E", "G", "I", "M", "N", "P", "R", "S", "T", "X",
   "a", "d", "e", "g", "i", "l", "m", "n", "o", "p", "r", "s", "t", "v",
   "x", "y"}

Word == Letter \cup Digit \cup {"_"}

(***************************************************************************)
(* Sequence helpers.                                                       *)
(***************************************************************************)
Slice(s, i, j) == IF i > j THEN <<>> ELSE SubSeq(s, i, j)

\* First index k >= i with s[k] outside class (Len(s)+1 if none): the end
\* of a greedy run "class*" started at i.
RECURSIVE Run(_, _, _)
Run(s, i, class) ==
  IF i <= Len(s) /\ s[i] \in class THEN Run(s, i + 1, class) ELSE i

\* First index k >= i with s[k] inside class (Len(s)+1 if none).
RECURSIVE RunNot(_, _, _)
RunNot(s, i, class) ==
  IF i <= Len(s) /\ s[i] \notin class THEN RunNot(s, i + 1, class) ELSE i

\* Last index k <= j with s[k] outside Space (0 if none).
RECURSIVE RunBack(_, _)
RunBack(s, j) ==
  IF j >= 1 /\ s[j] \in Space THEN RunBack(s, j - 1) ELSE j

\* str.strip()
Strip(s) == Slice(s, Run(s, 1, Space), RunBack(s, Len(s)))

\* str.split(maxsplit=1): the first whitespace-delimited token and, when
\* something other than whitespace follows it, the remainder.
Split1(s) ==
  LET a == Run(s, 1, Space)
      b == RunNot(s, a, Space)
      c == Run(s, b, Space)
  IN  IF a > Len(s) THEN <<>>
      ELSE IF c > Len(s) THEN <<Slice(s, a, b - 1)>>
      ELSE <<Slice(s, a, b - 1), Slice(s, c, Len(s))>>

\* sub in s
Contains(s, sub) ==
  \E i \in 1..(Len(s) - Len(sub) + 1) : Slice(s, i, i + Len(sub) - 1) = sub

\* str.isdigit()
IsDigitStr(s) == Len(s) > 0 /\ \A i \in 1..Len(s) : s[i] \in Digit

(***************************************************************************)
(* The four patterns (re.match anchors at the start of the line).          *)
(***************************************************************************)
\* ^\d{3}\s+.*
level1_pattern(s) ==
  /\ Len(s) >= 4
  /\ \A i \in 1..3 : s[i] \in Digit
  /\ s[4] \in Space

\* ^\d{3}\.\d+\s+.*
level2_pattern(s) ==
  /\ Len(s) >= 6
  /\ \A i \in 1..3 : s[i] \in Digit
  /\ s[4] = "."
  /\ LET e == Run(s, 5, Digit)
     IN  e > 5 /\ e <= Len(s) /\ s[e] \in Space

\* Faulty variant of level3_pattern that asks for 3 digits.
level3_pattern_three_digits(s) ==
  /\ Len(s) >= 4
  /\ \A i \in 1..3 : s[i] \in Digit
  /\ s[4] \in Space

\* ^\d{4}\s+.*
level3_pattern(s) ==
  /\ Len(s) >= 5
  /\ \A i \in 1..4 : s[i] \in Digit
  /\ s[5] \in Space

\* A group that did not take part in the match (None in m.groups()).
None == <<>>

Group(text) == <<text>>

\* ^(CADT\w+)?\s*-\s*(\d{8,})?\s*_?\s*X\s*_?\s*(.*)
\* Every quantifier is greedy and is followed by an atom that cannot start
\* with a character of the quantified class, so giving characters back
\* never turns a failed match into a successful one; the longest runs are
\* the only candidates.  The pattern is matched left to right, each
\* operator below handing the positions found so far to the next.

\* "c?" at position p: the position after it.
optional(s, p, c) == IF p <= Len(s) /\ s[p] = c THEN p + 1 ELSE p

\* (CADT\w+)? at position 1, w being the end of the run \w* from 5: the
\* position after the group, 1 when the group takes no part.
group1_end(s, w) ==
  IF Len(s) >= 5 /\ Slice(s, 1, 4) = <<"C", "A", "D", "T">> /\ w > 5
  THEN w ELSE 1

\* Faulty variant of group2_end that takes a run of 7 digits too.
group2_end_seven(b, d) == IF d - b >= 7 THEN d ELSE b

\* (\d{8,})? at position b, d being the end of the run \d* from b: the
\* position after the group, b when the group takes no part.
group2_end(b, d) == IF d - b >= 8 THEN d ELSE b

\* \s*_?\s* from position p: where the pattern goes on.
marker_gap(s, p) == Run(s, optional(s, Run(s, p, Space), "_"), Space)

\* (.*) at position p: up to the end of the line.
rest_of_line(s, p) == Slice(s, p, RunNot(s, p, {"\n"}) - 1)

\* m.groups() for group 1 ending before p1, "-" expected at a, group 2
\* from b ending before p2 and "X" expected at x; None without a match.
data_groups(s, p1, a, b, p2, x) ==
  IF /\ a <= Len(s) /\ s[a] = "-"
     /\ x <= Len(s) /\ s[x] = "X"
  THEN <<IF p1 = 1 THEN None ELSE Group(Slice(s, 1, p1 - 1)),
         IF p2 = b THEN None ELSE Group(Slice(s, b, p2 - 1)),
         rest_of_line(s, marker_gap(s, x + 1))>>
  ELSE None

data_from_group2(s, p1, a, b, p2) ==
  data_groups(s, p1, a, b, p2, marker_gap(s, p2))

data_from_dash(s, p1, a, b) ==
  data_from_group2(s, p1, a, b, group2_end(b, Run(s, b, Digit)))

data_from_group1(s, p1, a) == data_from_dash(s, p1, a, Run(s, a + 1, Space))

\* data_pattern.match(s): None, or <<id, numeric, description>> with None
\* for a group that took no part.
data_pattern(s) ==
  data_from_group1(s, group1_end(s, Run(s, 5, Word)),
                   Run(s, group1_end(s, Run(s, 5, Word)), Space))

(***************************************************************************)
(* parse_text_to_dataframe: the body of the loop over the lines.           *)
(***************************************************************************)
PAGE == <<"P", "A", "G", "E">>

REPORT_TITLE ==
  <<"D", "e", "l", "o", "i", "t", "t", "e", " ", "I", "n", "d", "i", "a", " ",
    "M", "a", "n", "a", "g", "e", "m", "e", "n", "t", " ",
    "R", "e", "p", "o", "r", "t", "i", "n", "g">>

\* Faulty variant of is_skipped that misses the "PAGE" marker.
is_skipped_no_page(line) ==
  line = <<>> \/ Contains(line, REPORT_TITLE)

\* if not line or "PAGE" in line or "Deloitte ..." in line: continue
is_skipped(line) ==
  line = <<>> \/ Contains(line, PAGE) \/ Contains(line, REPORT_TITLE)

\* line.split(maxsplit=1)[1] if len(line.split(maxsplit=1)) > 1 else line
header_text(line) ==
  IF Len(Split1(line)) > 1 THEN Split1(line)[2] ELSE line

\* Faulty variant of numeric_code_heuristic that promotes a digit token of
\* any length.
numeric_code_heuristic_any_length(id_code, numeric_code, description) ==
  LET desc_parts == Split1(description)
  IN  IF /\ id_code # <<>> /\ numeric_code = <<>>
         /\ Len(desc_parts) > 1
         /\ IsDigitStr(desc_parts[1])
      THEN <<desc_parts[1], desc_parts[2]>>
      ELSE <<numeric_code, description>>

\* The heuristic that looks for the numeric code at the head of the
\* description; the result is <<numeric_code, description>>.
numeric_code_heuristic(id_code, numeric_code, description) ==
  LET desc_parts == Split1(description)
  IN  IF /\ id_code # <<>> /\ numeric_code = <<>>
         /\ Len(desc_parts) > 1
         /\ IsDigitStr(desc_parts[1])
         /\ Len(desc_parts[1]) >= 8
      THEN <<desc_parts[1], desc_parts[2]>>
      ELSE <<numeric_code, description>>

\* Faulty variant of is_valid_row that accepts every matched line.
is_valid_row_always(id_code, numeric_code) == TRUE

\* if id_code or numeric_code
is_valid_row(id_code, numeric_code) == id_code # <<>> \/ numeric_code # <<>>

\* Faulty variant of new_row that puts the Level-3 description in both
\* Level-3 columns.
new_row_wrong_column(st, id_code, numeric_code, description) ==
  <<st.current_level_1, st.current_level_2, st.current_level_3_desc,
    st.current_level_3_desc, id_code, numeric_code, description>>

\* The record appended for an accepted data row: the context, then the
\* decoded fields.
new_row(st, id_code, numeric_code, description) ==
  <<st.current_level_1, st.current_level_2, st.current_level_3_code,
    st.current_level_3_desc, id_code, numeric_code, description>>

\* Faulty variant of on_level1 that forgets to reset the Level-3
\* description.
on_level1_keeps_desc(st, line) ==
  [st EXCEPT !.current_level_1 = header_text(line),
             !.current_level_2 = <<>>,
             !.current_level_3_code = <<>>]

\* Level-1 branch of the loop body.
on_level1(st, line) ==
  [st EXCEPT !.current_level_1 = header_text(line),
             !.current_level_2 = <<>>,
             !.current_level_3_code = <<>>,
             !.current_level_3_desc = <<>>]

\* Faulty variant of on_level2 that forgets to reset the Level-3 code.
on_level2_keeps_code(st, line) ==
  [st EXCEPT !.current_level_2 = header_text(line),
             !.current_level_3_desc = <<>>]

\* Level-2 branch of the loop body.
on_level2(st, line) ==
  [st EXCEPT !.current_level_2 = header_text(line),
             !.current_level_3_code = <<>>,
             !.current_level_3_desc = <<>>]

\* Faulty variant of on_level3 that also resets the Level-2 label.
on_level3_resets_level2(st, line) ==
  LET parts == Split1(line)
  IN  [st EXCEPT !.current_level_2 = <<>>,
                 !.current_level_3_code = parts[1],
                 !.current_level_3_desc =
                   IF Len(parts) > 1 THEN parts[2] ELSE <<>>]

\* Level-3 branch of the loop body.
on_level3(st, line) ==
  LET parts == Split1(line)
  IN  [st EXCEPT !.current_level_3_code = parts[1],
                 !.current_level_3_desc =
                   IF Len(parts) > 1 THEN parts[2] ELSE <<>>]

\* Faulty variant of append_row that drops a row equal to one already in
\* the table.
append_row_dedup(data_, row) ==
  IF \E i \in 1..Len(data_) : data_[i] = row THEN data_ ELSE Append(data_, row)

\* data.append([...])
append_row(data_, row) == Append(data_, row)

\* Lines 117-127: append the row if it has an id or a numeric code; fixed
\* is <<numeric_code, description>> after the heuristic.
accept_row(st, id_code, fixed) ==
  IF is_valid_row(id_code, fixed[1])
  THEN [st EXCEPT !.data =
          append_row(st.data, new_row(st, id_code, fixed[1], fixed[2]))]
  ELSE st

\* Lines 110-115 on the cleaned-up groups.
decode_row(st, id_code, numeric_code, description) ==
  accept_row(st, id_code,
             numeric_code_heuristic(id_code, numeric_code, description))

\* Lines 102-108: nothing without a match; else None becomes '' and the
\* description is stripped.
on_match(st, match) ==
  IF match = None THEN st
  ELSE decode_row(st,
                  IF match[1] = None THEN <<>> ELSE match[1][1],
                  IF match[2] = None THEN <<>> ELSE match[2][1],
                  Strip(match[3]))

\* The else branch of the loop body: try the line as a data row.
on_data(st, line) == on_match(st, data_pattern(line))

\* One iteration of "for line in lines" on the parser state st (the four
\* current_* variables and data) and the unstripped line raw.
parse_line(st, raw) ==
  LET line == Strip(raw)
  IN  IF is_skipped(line) THEN st
      ELSE IF level1_pattern(line) /\ ~level2_pattern(line) /\ ~level3_pattern(line)
      THEN on_level1(st, line)
      ELSE IF level2_pattern(line) THEN on_level2(st, line)
      ELSE IF level3_pattern(line) THEN on_level3(st, line)
      ELSE on_data(st, line)

\* The state before the loop: data = [] and the four context strings "".
parser_start ==
  [current_level_1 |-> <<>>, current_level_2 |-> <<>>,
   current_level_3_code |-> <<>>, current_level_3_desc |-> <<>>,
   data |-> <<>>]

\* text.split('\n')
RECURSIVE SplitLines(_)
SplitLines(text) ==
  LET e == RunNot(text, 1, {"\n"})
  IN  IF e > Len(text) THEN <<text>>
      ELSE <<Slice(text, 1, e - 1)>> \o SplitLines(Slice(text, e + 1, Len(text)))

\* "\n".join(parts)
RECURSIVE JoinLines(_)
JoinLines(parts) ==
  IF parts = <<>> THEN <<>>
  ELSE IF Len(parts) = 1 THEN parts[1]
  ELSE parts[1] \o <<"\n">> \o JoinLines(Tail(parts))

\* The loop "for line in lines" from parser state st.
RECURSIVE parse_lines(_, _)
parse_lines(st, lines) ==
  IF lines = <<>> THEN st
  ELSE parse_lines(parse_line(st, Head(lines)), Tail(lines))

\* parse_text_to_dataframe(text): the rows of the DataFrame it returns.
parse_text_to_dataframe(text) ==
  parse_lines(parser_start, SplitLines(text)).data

(***************************************************************************)
(* extract_text_from_pdf: a block is what page.get_text("blocks") returns, *)
(* reduced to the fields the code reads: b[0] (x0), b[1] (y0), b[4] (text).*)
(***************************************************************************)
\* Faulty variant of key_less that compares (b[0], b[1]).
key_less_x_first(a, b) == a.x0 < b.x0 \/ (a.x0 = b.x0 /\ a.y0 < b.y0)

\* The key of blocks.sort: (b[1], b[0]), compared as tuples.
key_less(a, b) == a.y0 < b.y0 \/ (a.y0 = b.y0 /\ a.x0 < b.x0)

\* Insert b after every block of the sorted list whose key is not greater.
RECURSIVE insert_block(_, _)
insert_block(sorted, b) ==
  IF sorted = <<>> THEN <<b>>
  ELSE IF key_less(b, Head(sorted)) THEN <<b>> \o sorted
  ELSE <<Head(sorted)>> \o insert_block(Tail(sorted), b)

\* blocks.sort(key=lambda b: (b[1], b[0])): list.sort is stable.
RECURSIVE sort_blocks(_)
sort_blocks(blocks) ==
  IF blocks = <<>> THEN <<>>
  ELSE insert_block(sort_blocks(SubSeq(blocks, 1, Len(blocks) - 1)),
                    blocks[Len(blocks)])

\* [b[4].strip() for b in blocks]
RECURSIVE block_texts(_)
block_texts(blocks) ==
  IF blocks = <<>> THEN <<>>
  ELSE <<Strip(Head(blocks).text)>> \o block_texts(Tail(blocks))

\* What one page adds to full_text.
page_text(blocks) == block_texts(sort_blocks(blocks))

\* "if not raw_text": None or the empty string.
is_falsy(raw) == raw = None \/ raw[1] = <<>>

\* Faulty variant of df_empty that never reports an empty table.
df_empty_never(df) == FALSE

\* data_df.empty
df_empty(df) == Len(df) = 0

EXTRACT_FAILED == "Failed to extract text from the PDF."

NO_DATA == "Could not parse any structured data from the PDF."

CONVERTED == "Successfully converted PDF to Excel file"

(***************************************************************************)
(* The lines fed to the parser.                                            *)
(***************************************************************************)
CADTA == <<"C", "A", "D", "T", "A">>

NUM8 == <<"1", "2", "3", "4", "5", "6", "7", "8">>

NUM7 == <<"1", "2", "3", "4", "5", "6", "7">>

\* Blank lines and lines with a skip marker, three of which would
\* otherwise be a Level-1 header, a data row and a Level-3 header.
SkipLines ==
  { <<>>,
    <<" ", "\t">>,
    <<"0", "0", "1", " ">> \o PAGE,
    CADTA \o <<" ", "-", " ", "X", " ">> \o PAGE \o <<"1">>,
    <<"4", "0", "1", "0", " ">> \o REPORT_TITLE,
    <<"0", "0", "1", ".", "1", " ", "a">> \o PAGE }

Level1Lines ==
  { <<"0", "0", "1", " ", "N", "e", "t">>,
    <<" ", "0", "0", "2", " ", "R", " ", "v", " ">>,
    <<"0", "0", "3", " ", "\t", "X">> }

Level2Lines ==
  { <<"0", "0", "1", ".", "1", " ", "S", "v", "c">>,
    <<"0", "0", "1", ".", "1", "2", " ", " ", "a", " ", "d">> }

Level3Lines ==
  { <<"4", "0", "1", "0", " ", "G", "r", "o", "s", "s">>,
    <<"4", "0", "1", "1", "\t", "G", " ", "s">> }

\* Lines that are neither skipped, nor a header, nor a data row.
NoiseLines ==
  { <<"0", "0", "1">>,
    <<"0", "0", "1", ".", "1">>,
    <<"4", "0", "1", "0">>,
    <<"4", "0", "1", "0", "0", " ", "x">>,
    <<"0", "0", "1", ".", "x", " ", "y">>,
    <<"P", "a", "g", "e", " ", "1">>,
    <<"C", "A", "D", "T", " ", "-", " ", "X", " ", "d">>,
    CADTA \o <<" ", "-", " ">> \o NUM7 \o <<" ", "X", " ", "d">>,
    CADTA \o <<" ">> \o NUM8 \o <<" ", "X", " ", "d">>,
    CADTA \o <<" ", "-", " ">> \o NUM8 \o <<" ", "d">>,
    <<"-", " ", "_", "_", "X", " ", "d">> }

\* Lines the data-row pattern matches.
DataLines ==
  { CADTA \o <<" ", "-", " ">> \o NUM8 \o <<" ", "_", "X", "_", " ", "d">>,
    CADTA \o <<" ", "-", " ", "_", "X", "_", " ">> \o NUM8 \o <<" ", "d", " ", "e">>,
    CADTA \o <<" ", "-", " ", "_", "X", "_", " ">> \o NUM8,
    CADTA \o <<" ", "-", " ", "X", " ">> \o NUM7 \o <<" ", "d">>,
    CADTA \o <<" ", "-", " ", "X", " ">> \o NUM8 \o <<"a", " ", "d">>,
    CADTA \o <<" ", "-", " ", "X", " ", "d">>,
    <<"-", " ">> \o NUM8 \o <<" ", "X", " ", "d">>,
    <<"-", " ", "X", " ", "d">>,
    <<"-", " ", "_", "X", "_", " ">> \o NUM8 \o <<" ", "d">>,
    CADTA \o <<"-">> \o NUM8 \o <<"9", "X">>,
    <<" ">> \o CADTA \o <<"_", "1", " ", "-", " ", "X", "_", " ", "d", " ">> }

LineSet ==
  SkipLines \cup Level1Lines \cup Level2Lines \cup Level3Lines
    \cup NoiseLines \cup DataLines

\* The number of lines a run of the parser is fed.
MaxLines == 3

\* The texts a block of a page may carry: whitespace only, a line that is
\* neither header nor data row, a line the data-row pattern matches
\* without id and numeric code, and a header line followed by a data row.
BlockTexts ==
  { <<" ", "\n">>,
    <<"P", "a", "g", "e", " ", "1", "\n">>,
    <<"-", " ", "X", " ", "d">>,
    <<"0", "0", "1", " ", "N", "\n">> \o CADTA \o <<" ", "-", " ", "X", " ", "d", "\n">> }

\* Pages of the document.
MaxPages == 2

\* Blocks of a page.
MaxBlocks == 1

\* Largest block coordinate.
MaxCoord == 1

Blocks == [x0 : 0..MaxCoord, y0 : 0..MaxCoord, text : BlockTexts]

\* The lists page.get_text("blocks") may return.
BlockLists == UNION { [1..k -> Blocks] : k \in 0..MaxBlocks }

\* The texts of the blocks whose order is followed through the page loop:
\* one that strip() shortens at both ends and one it leaves alone.
SortTexts == { <<" ", "a", "\n">>, <<"b">> }

\* Blocks of a page whose order is followed.
MaxSortBlocks == 2

SortBlocks == [x0 : 0..MaxCoord, y0 : 0..MaxCoord, text : SortTexts]

\* The lists page.get_text("blocks") may return, in any order.
SortLists == UNION { [1..k -> SortBlocks] : k \in 0..MaxSortBlocks }

(***************************************************************************)
(* app.py: the requests, the uploaded files and the temporary paths.       *)
(***************************************************************************)
\* The POST requests in flight.
Requests == {1, 2}

\* base_name: the uploaded file's name after secure_filename, without its
\* extension.
FileNames == {"q1", "q2"}

\* The values secrets.token_hex(8) returns, in the order of the calls: no
\* value comes twice.
Tokens == <<"0a", "1b", "2c", "3d">>

\* Faulty variant of temp_path that gives every request the same suffix.
temp_path_same_suffix(base_name, token, ext) ==
  [base_name |-> base_name, token |-> Tokens[1], ext |-> ext]

\* os.path.join(UPLOAD_FOLDER, f"{base_name}_{token}.{ext}")
temp_path(base_name, token, ext) ==
  [base_name |-> base_name, token |-> token, ext |-> ext]

Paths ==
  [base_name : FileNames, token : {Tokens[i] : i \in 1..Len(Tokens)},
   ext : {"pdf", "xlsx"}]

\* A page with one block.
OnePage(text) == <<[x0 |-> 0, y0 |-> 0, text |-> text]>>

\* The uploaded files: bytes fitz cannot open, and documents whose text
\* gives no row, one row, or another row.
Uploads ==
  { [kind |-> "corrupt", pages |-> <<>>],
    [kind |-> "readable",
     pages |-> <<OnePage(<<"P", "a", "g", "e", " ", "1", "\n">>)>>],
    [kind |-> "readable",
     pages |-> <<OnePage(<<"0", "0", "1", " ", "N", "\n">>),
                 OnePage(CADTA \o <<" ", "-", " ", "X", " ", "d", "\n">>)>>],
    [kind |-> "readable",
     pages |-> <<OnePage(<<"-", " ">> \o NUM8 \o <<" ", "X", " ", "e">>)>>] }

\* full_text after the page loop over pages.
RECURSIVE pages_text(_)
pages_text(pages) ==
  IF pages = <<>> THEN <<>>
  ELSE page_text(Head(pages)) \o pages_text(Tail(pages))

\* extract_text_from_pdf(pdf_path) on the file found at the path (None:
\* no file there).
extract_text_from_pdf(file) ==
  IF file = None THEN None
  ELSE IF file[1].kind = "corrupt" THEN None
  ELSE Group(JoinLines(pages_text(file[1].pages)))

\* convert_pdf_to_excel up to save_to_excel: the rows of data_df and, when
\* it returns before saving, the message of the failure ("" otherwise).
convert_text(raw) ==
  IF is_falsy(raw) THEN [data_df |-> <<>>, message |-> EXTRACT_FAILED]
  ELSE IF df_empty(parse_text_to_dataframe(raw[1]))
       THEN [data_df |-> <<>>, message |-> NO_DATA]
       ELSE [data_df |-> parse_text_to_dataframe(raw[1]), message |-> ""]

\* An Excel file holding the rows, and one whose writing broke off.
ExcelFile(rows) == [rows |-> rows, complete |-> TRUE]

TRUNCATED == [rows |-> <<>>, complete |-> FALSE]

\* The locals of a request that has not reached the upload branch.
idle ==
  [pc |-> "idle", base_name |-> "", file |-> <<>>,
   pdf_path |-> <<>>, excel_path |-> <<>>,
   success |-> FALSE, message |-> "", data_df |-> <<>>,
   excel_data |-> <<>>, error |-> "", response |-> <<>>]

\* Faulty variant of remove_temp_files that forgets the Excel file.
remove_pdf_only(folder, pdf_path, excel_path) ==
  [folder EXCEPT ![pdf_path] = None]

\* The clean-up of the except branch: os.remove of each path that exists.
remove_temp_files(folder, pdf_path, excel_path) ==
  [folder EXCEPT ![pdf_path] = None, ![excel_path] = None]

(***************************************************************************)
(* State.  One run of parse_text_to_dataframe: the loop variable line      *)
(* (after line.strip()), the number n of lines consumed, the four context  *)
(* strings and the list data.  One call of convert_pdf_to_excel: its       *)
(* position pc, the PDF file (pdf), len(doc), the page loop index, the     *)
(* list full_text, raw_text, the rows of data_df, the returned tuple       *)
(* (result) and whether the Excel file was written.                        *)
(* The page loop in two steps: the blocks a page returned (page_blocks)    *)
(* and the sorted list (blocks).  The upload handler: the files of the     *)
(* upload folder by path, the locals of each request (handler) and the     *)
(* number of tokens issued.                                                *)
(***************************************************************************)
VARIABLES line, n, current_level_1, current_level_2, current_level_3_code,
          current_level_3_desc, data,
          pc, pdf, doc_len, page_num, full_text, raw_text, data_df, result,
          excel_written,
          page_blocks, blocks,
          upload_folder, handler, issued

parser_vars ==
  <<line, n, current_level_1, current_level_2, current_level_3_code,
    current_level_3_desc, data>>

convert_vars ==
  <<pc, pdf, doc_len, page_num, full_text, raw_text, data_df, result,
    excel_written>>

\* The page loop of extract_text_from_pdf taken in two steps: the list
\* page.get_text("blocks") returned and the list blocks after blocks.sort.
page_vars == <<page_blocks, blocks>>

\* The upload handler of app.py: the files of UPLOAD_FOLDER by path, the
\* locals of each running request, and how many values secrets.token_hex
\* has returned.
serve_vars == <<upload_folder, handler, issued>>

vars == <<parser_vars, convert_vars, page_vars, serve_vars>>

\* The parser state as parse_line takes it.
parser_state ==
  [current_level_1 |-> current_level_1, current_level_2 |-> current_level_2,
   current_level_3_code |-> current_level_3_code,
   current_level_3_desc |-> current_level_3_desc,
   data |-> data]

\* A run of the parser alone: the state before the loop, on text that came
\* from a readable file.
Init ==
  /\ line = <<>>
  /\ n = 0
  /\ current_level_1 = parser_start.current_level_1
  /\ current_level_2 = parser_start.current_level_2
  /\ current_level_3_code = parser_start.current_level_3_code
  /\ current_level_3_desc = parser_start.current_level_3_desc
  /\ data = parser_start.data
  /\ pc = "extract"
  /\ pdf = "readable"
  /\ doc_len = 0
  /\ page_num = 0
  /\ full_text = <<>>
  /\ raw_text = None
  /\ data_df = <<>>
  /\ result = <<>>
  /\ excel_written = FALSE
  /\ page_blocks = <<>>
  /\ blocks = <<>>
  /\ upload_folder = [p \in Paths |-> None]
  /\ handler = [r \in Requests |-> idle]
  /\ issued = 0

\* convert_pdf_to_excel has been called on a path where the file is
\* missing, unreadable or readable.
ConvertInit ==
  /\ line = <<>>
  /\ n = 0
  /\ current_level_1 = parser_start.current_level_1
  /\ current_level_2 = parser_start.current_level_2
  /\ current_level_3_code = parser_start.current_level_3_code
  /\ current_level_3_desc = parser_start.current_level_3_desc
  /\ data = parser_start.data
  /\ pc = "extract"
  /\ pdf \in {"missing", "corrupt", "readable"}
  /\ doc_len = 0
  /\ page_num = 0
  /\ full_text = <<>>
  /\ raw_text = None
  /\ data_df = <<>>
  /\ result = <<>>
  /\ excel_written = FALSE
  /\ page_blocks = <<>>
  /\ blocks = <<>>
  /\ upload_folder = [p \in Paths |-> None]
  /\ handler = [r \in Requests |-> idle]
  /\ issued = 0

\* One iteration of the loop, on any next line of the text.
ParseLine ==
  /\ n < MaxLines
  /\ \E raw \in LineSet :
       \E st \in {parse_line(parser_state, raw)} :
           /\ line' = Strip(raw)
           /\ n' = n + 1
           /\ current_level_1' = st.current_level_1
           /\ current_level_2' = st.current_level_2
           /\ current_level_3_code' = st.current_level_3_code
           /\ current_level_3_desc' = st.current_level_3_desc
           /\ data' = st.data
  /\ UNCHANGED <<convert_vars, page_vars, serve_vars>>

Next == ParseLine

Spec == Init /\ [][Next]_vars

(***************************************************************************)
(* convert_pdf_to_excel, step by step.                                     *)
(***************************************************************************)
\* extract_text_from_pdf up to the page loop: the file is missing, or
\* fitz.open raises, or the document opens with some number of pages.
OpenPdf ==
  /\ pc = "extract"
  /\ \/ /\ pdf \in {"missing", "corrupt"}
        /\ raw_text' = None
        /\ pc' = "extracted"
        /\ UNCHANGED doc_len
     \/ /\ pdf = "readable"
        /\ doc_len' \in 0..MaxPages
        /\ raw_text' = None
        /\ pc' = "pages"
  /\ UNCHANGED <<page_num, full_text, data_df, result, excel_written, pdf>>
  /\ UNCHANGED <<parser_vars, page_vars, serve_vars>>

\* One iteration of the page loop: the blocks of the page, sorted, add
\* their stripped texts to full_text; or reading the page raises.
LoadPage ==
  /\ pc = "pages"
  /\ page_num < doc_len
  /\ \/ \E got \in BlockLists :
          /\ full_text' = full_text \o page_text(got)
          /\ page_num' = page_num + 1
          /\ UNCHANGED <<pc, raw_text>>
     \/ /\ raw_text' = None
        /\ pc' = "extracted"
        /\ UNCHANGED <<full_text, page_num>>
  /\ UNCHANGED <<pdf, doc_len, data_df, result, excel_written>>
  /\ UNCHANGED <<parser_vars, page_vars, serve_vars>>

\* return "\n".join(full_text)
JoinText ==
  /\ pc = "pages"
  /\ page_num = doc_len
  /\ raw_text' = Group(JoinLines(full_text))
  /\ pc' = "extracted"
  /\ UNCHANGED <<pdf, doc_len, page_num, full_text, data_df, result, excel_written>>
  /\ UNCHANGED <<parser_vars, page_vars, serve_vars>>

\* if not raw_text: return False, ...; else parse the text.
ParseText ==
  /\ pc = "extracted"
  /\ IF is_falsy(raw_text)
     THEN /\ result' = <<FALSE, EXTRACT_FAILED>>
          /\ pc' = "done"
          /\ UNCHANGED data_df
     ELSE /\ data_df' = parse_text_to_dataframe(raw_text[1])
          /\ pc' = "parsed"
          /\ UNCHANGED result
  /\ UNCHANGED <<pdf, doc_len, page_num, full_text, raw_text, excel_written>>
  /\ UNCHANGED <<parser_vars, page_vars, serve_vars>>

\* if data_df.empty: return False, ...; else save_to_excel, which writes
\* the file or catches the exception of to_excel, and return True.
SaveAndReturn ==
  /\ pc = "parsed"
  /\ IF df_empty(data_df)
     THEN /\ result' = <<FALSE, NO_DATA>>
          /\ UNCHANGED excel_written
     ELSE /\ excel_written' \in BOOLEAN
          /\ result' = <<TRUE, CONVERTED>>
  /\ pc' = "done"
  /\ UNCHANGED <<pdf, doc_len, page_num, full_text, raw_text, data_df>>
  /\ UNCHANGED <<parser_vars, page_vars, serve_vars>>

ConvertNext == OpenPdf \/ LoadPage \/ JoinText \/ ParseText \/ SaveAndReturn

ConvertSpec == ConvertInit /\ [][ConvertNext]_vars

(***************************************************************************)
(* extract_text_from_pdf alone, the page loop in two steps.                *)
(***************************************************************************)
\* blocks = page.get_text("blocks"); blocks.sort(...): the page gives its
\* blocks in some order and the list is sorted; or reading the page raises.
GetBlocks ==
  /\ pc = "pages"
  /\ page_num < doc_len
  /\ \/ \E got \in SortLists :
          /\ page_blocks' = got
          /\ blocks' = sort_blocks(got)
          /\ pc' = "sorted"
          /\ UNCHANGED raw_text
     \/ /\ raw_text' = None
        /\ pc' = "extracted"
        /\ UNCHANGED page_vars
  /\ UNCHANGED <<pdf, doc_len, page_num, full_text, data_df, result, excel_written>>
  /\ UNCHANGED <<parser_vars, serve_vars>>

\* for b in blocks: full_text.append(b[4].strip()), and on to the next
\* page, where blocks is bound anew.
AppendTexts ==
  /\ pc = "sorted"
  /\ full_text' = full_text \o block_texts(blocks)
  /\ page_num' = page_num + 1
  /\ pc' = "pages"
  /\ page_blocks' = <<>>
  /\ blocks' = <<>>
  /\ UNCHANGED <<pdf, doc_len, raw_text, data_df, result, excel_written>>
  /\ UNCHANGED <<parser_vars, serve_vars>>

ExtractNext == OpenPdf \/ GetBlocks \/ AppendTexts \/ JoinText

ExtractSpec == ConvertInit /\ [][ExtractNext]_vars

(***************************************************************************)
(* index() of app.py on a POST, for each request in flight.  The steps are *)
(* the accesses to UPLOAD_FOLDER; the requests interleave between them.    *)
(***************************************************************************)
\* No request has come in and the folder holds no temporary file.
ServeInit ==
  /\ line = <<>>
  /\ n = 0
  /\ current_level_1 = parser_start.current_level_1
  /\ current_level_2 = parser_start.current_level_2
  /\ current_level_3_code = parser_start.current_level_3_code
  /\ current_level_3_desc = parser_start.current_level_3_desc
  /\ data = parser_start.data
  /\ pc = "extract"
  /\ pdf = "readable"
  /\ doc_len = 0
  /\ page_num = 0
  /\ full_text = <<>>
  /\ raw_text = None
  /\ data_df = <<>>
  /\ result = <<>>
  /\ excel_written = FALSE
  /\ page_blocks = <<>>
  /\ blocks = <<>>
  /\ upload_folder = [p \in Paths |-> None]
  /\ handler = [r \in Requests |-> idle]
  /\ issued = 0

\* The request carries a file with an allowed name: base_name and the two
\* paths, each with its own token.
Receive(r) ==
  /\ handler[r].pc = "idle"
  /\ issued + 2 <= Len(Tokens)
  /\ \E name \in FileNames : \E doc \in Uploads :
       handler' = [handler EXCEPT ![r] =
         [idle EXCEPT !.pc = "save",
                      !.base_name = name,
                      !.file = Group(doc),
                      !.pdf_path = temp_path(name, Tokens[issued + 1], "pdf"),
                      !.excel_path = temp_path(name, Tokens[issued + 2], "xlsx")]]
  /\ issued' = issued + 2
  /\ UNCHANGED upload_folder

\* file.save(pdf_path): the upload is written, or the write raises and
\* leaves nothing new or a broken file.
SavePdf(r) ==
  /\ handler[r].pc = "save"
  /\ \/ /\ upload_folder' =
             [upload_folder EXCEPT ![handler[r].pdf_path] = handler[r].file]
        /\ handler' = [handler EXCEPT ![r].pc = "convert"]
     \/ /\ \E left \in {upload_folder[handler[r].pdf_path],
                         Group([kind |-> "corrupt", pages |-> <<>>])} :
             upload_folder' = [upload_folder EXCEPT ![handler[r].pdf_path] = left]
        /\ handler' = [handler EXCEPT ![r].pc = "except",
                                      ![r].error = "save failed"]
  /\ UNCHANGED issued

\* convert_pdf_to_excel(pdf_path, excel_path) up to save_to_excel: the
\* file at pdf_path is read and parsed; a failure returns at once.
Convert(r) ==
  /\ handler[r].pc = "convert"
  /\ \E res \in {convert_text(extract_text_from_pdf(upload_folder[handler[r].pdf_path]))} :
       handler' = [handler EXCEPT
         ![r].data_df = res.data_df,
         ![r].success = FALSE,
         ![r].message = res.message,
         ![r].pc = IF res.message = "" THEN "save_excel" ELSE "remove_pdf"]
  /\ UNCHANGED <<upload_folder, issued>>

\* save_to_excel and return True: the table is written to excel_path, or
\* to_excel raises, which save_to_excel catches, leaving no file or a
\* broken one.
SaveExcel(r) ==
  /\ handler[r].pc = "save_excel"
  /\ \E written \in {Group(ExcelFile(handler[r].data_df)), Group(TRUNCATED),
                      upload_folder[handler[r].excel_path]} :
       upload_folder' = [upload_folder EXCEPT ![handler[r].excel_path] = written]
  /\ handler' = [handler EXCEPT ![r].success = TRUE,
                                ![r].message = CONVERTED,
                                ![r].pc = "remove_pdf"]
  /\ UNCHANGED issued

\* if os.path.exists(pdf_path): os.remove(pdf_path); then, when the
\* conversion failed, flash and redirect.
RemovePdf(r) ==
  /\ handler[r].pc = "remove_pdf"
  /\ upload_folder' = [upload_folder EXCEPT ![handler[r].pdf_path] = None]
  /\ handler' =
       IF handler[r].success
       THEN [handler EXCEPT ![r].pc = "read_excel"]
       ELSE [handler EXCEPT
               ![r].pc = "done",
               ![r].response = <<"redirect", "Conversion failed", handler[r].message>>]
  /\ UNCHANGED issued

\* with open(excel_path, 'rb') as f: excel_data = f.read()
ReadExcel(r) ==
  /\ handler[r].pc = "read_excel"
  /\ IF upload_folder[handler[r].excel_path] = None
     THEN handler' = [handler EXCEPT ![r].pc = "except",
                                     ![r].error = "No such file"]
     ELSE \/ handler' = [handler EXCEPT
                           ![r].excel_data = upload_folder[handler[r].excel_path],
                           ![r].pc = "remove_excel"]
          \/ handler' = [handler EXCEPT ![r].pc = "except",
                                        ![r].error = "read failed"]
  /\ UNCHANGED <<upload_folder, issued>>

\* if os.path.exists(excel_path): os.remove(excel_path)
RemoveExcel(r) ==
  /\ handler[r].pc = "remove_excel"
  /\ upload_folder' = [upload_folder EXCEPT ![handler[r].excel_path] = None]
  /\ handler' = [handler EXCEPT ![r].pc = "respond"]
  /\ UNCHANGED issued

\* make_response(send_file(BytesIO(excel_data), ...)), set_cookie, return;
\* or building the response raises.
Respond(r) ==
  /\ handler[r].pc = "respond"
  /\ \/ handler' = [handler EXCEPT
                      ![r].pc = "done",
                      ![r].response = <<"download", handler[r].base_name,
                                        handler[r].excel_data>>]
     \/ handler' = [handler EXCEPT ![r].pc = "except",
                                   ![r].error = "response failed"]
  /\ UNCHANGED <<upload_folder, issued>>

\* except Exception as e: remove both files when they exist, flash and
\* redirect.
Except(r) ==
  /\ handler[r].pc = "except"
  /\ upload_folder' =
       remove_temp_files(upload_folder, handler[r].pdf_path, handler[r].excel_path)
  /\ handler' = [handler EXCEPT
       ![r].pc = "done",
       ![r].response = <<"redirect", "An error occurred", handler[r].error>>]
  /\ UNCHANGED issued

ServeStep(r) ==
  /\ \/ Receive(r) \/ SavePdf(r) \/ Convert(r) \/ SaveExcel(r) \/ RemovePdf(r)
     \/ ReadExcel(r) \/ RemoveExcel(r) \/ Respond(r) \/ Except(r)
  /\ UNCHANGED <<parser_vars, convert_vars, page_vars>>

ServeNext == \E r \in Requests : ServeStep(r)

ServeSpec == ServeInit /\ [][ServeNext]_vars

(***************************************************************************)
(* Vocabulary of the properties: how a stripped line is classified, and    *)
(* the pieces of a header line.                                            *)
(***************************************************************************)
SkipMarked(l) == l = <<>> \/ Contains(l, PAGE) \/ Contains(l, REPORT_TITLE)

Level1HeaderLine(l) ==
  ~SkipMarked(l) /\ level1_pattern(l) /\ ~level2_pattern(l) /\ ~level3_pattern(l)

Level2HeaderLine(l) == ~SkipMarked(l) /\ level2_pattern(l)

Level3HeaderLine(l) == ~SkipMarked(l) /\ level3_pattern(l)

DataCandidate(l) ==
  ~SkipMarked(l) /\ ~level1_pattern(l) /\ ~level2_pattern(l) /\ ~level3_pattern(l)

\* The text of l from position i on, without surrounding whitespace.
TextFrom(l, i) == Strip(Slice(l, i, Len(l)))

\* The records the step has added at the end of data.
Added == {i \in (Len(data) + 1)..Len(data') : TRUE}

ContextUnchanged ==
  /\ current_level_1' = current_level_1
  /\ current_level_2' = current_level_2
  /\ current_level_3_code' = current_level_3_code
  /\ current_level_3_desc' = current_level_3_desc

SublevelsEmpty ==
  current_level_2 = <<>> /\ current_level_3_code = <<>> /\ current_level_3_desc = <<>>

\* C1: every record of the table has a non-empty id or a non-empty numeric
\* code, and a line that matches the data-row pattern with neither an id
\* nor a numeric code adds nothing to the table.
C1_IdOrNumericCode ==
  [][ /\ \A i \in 1..Len(data') : data'[i][5] # <<>> \/ data'[i][6] # <<>>
      /\ ( /\ DataCandidate(line')
           /\ data_pattern(line') # None
           /\ data_pattern(line')[1] = None
           /\ data_pattern(line')[2] = None ) => data' = data ]_vars

\* C1 witness: with a record in the table, a line that the data-row pattern
\* matches without id and without numeric code has just been processed.
C1_Witness ==
  /\ Len(data) >= 1
  /\ DataCandidate(line)
  /\ data_pattern(line) # None
  /\ data_pattern(line)[1] = None
  /\ data_pattern(line)[2] = None

\* C2: a Level-1 header line sets current_level_1 to the text after the
\* 3-digit prefix and empties the three sublevel strings; from a state
\* whose sublevels are empty, a line that is not a Level-2 or Level-3
\* header leaves them empty and any record it adds carries them empty.
C2_Level1Resets ==
  [][ /\ Level1HeaderLine(line') =>
           /\ current_level_1' = TextFrom(line', 4)
           /\ SublevelsEmpty'
      /\ (SublevelsEmpty /\ ~Level2HeaderLine(line') /\ ~Level3HeaderLine(line')) =>
           /\ SublevelsEmpty'
           /\ \A i \in Added :
                data'[i][2] = <<>> /\ data'[i][3] = <<>> /\ data'[i][4] = <<>> ]_vars

\* C2 witness: a record emitted after a Level-1 header that replaced a
\* context with a Level-2 or Level-3 entry.
C2_Witness ==
  /\ Len(data) >= 1
  /\ n = 3
  /\ current_level_1 # <<>>
  /\ SublevelsEmpty
  /\ data[Len(data)][1] = current_level_1
  /\ data[Len(data)][2] = <<>>

\* C3: a Level-2 header line sets current_level_2 to the text after the
\* "NNN.N" prefix, empties the Level-3 code and description, and leaves
\* current_level_1 and the table unchanged.
C3_Level2Frame ==
  [][ Level2HeaderLine(line') =>
        /\ current_level_2' = TextFrom(line', Run(line', 5, Digit))
        /\ current_level_3_code' = <<>>
        /\ current_level_3_desc' = <<>>
        /\ current_level_1' = current_level_1
        /\ data' = data ]_vars

\* C3 witness: a Level-2 header processed under a Level-1 and a Level-3
\* context.
C3_Witness ==
  /\ Level2HeaderLine(line)
  /\ current_level_1 # <<>>
  /\ current_level_2 = TextFrom(line, Run(line, 5, Digit))
  /\ current_level_3_code = <<>>
  /\ n = 3

\* C4: a Level-3 header line sets current_level_3_code to the first
\* whitespace-delimited token of the line and current_level_3_desc to the
\* remainder, and leaves current_level_1, current_level_2 and the table
\* unchanged.
C4_Level3Frame ==
  [][ Level3HeaderLine(line') =>
        /\ current_level_3_code' = Slice(line', 1, RunNot(line', 1, Space) - 1)
        /\ current_level_3_desc' = TextFrom(line', RunNot(line', 1, Space))
        /\ current_level_1' = current_level_1
        /\ current_level_2' = current_level_2
        /\ data' = data ]_vars

\* C4 witness: a Level-3 header processed under a Level-1 and a Level-2
\* context.
C4_Witness ==
  /\ Level3HeaderLine(line)
  /\ current_level_1 # <<>>
  /\ current_level_2 # <<>>
  /\ current_level_3_code = Slice(line, 1, 4)
  /\ current_level_3_desc # <<>>

\* C5: the context is all empty before the first line; every record a
\* step adds carries the four context strings as they were when its line
\* was processed; a step that adds a record, or whose line is a data-row
\* candidate, leaves the context unchanged.
C5_ContextSnapshot ==
  [][ /\ n = 0 => (current_level_1 = <<>> /\ SublevelsEmpty)
      /\ \A i \in Added :
           /\ data'[i][1] = current_level_1
           /\ data'[i][2] = current_level_2
           /\ data'[i][3] = current_level_3_code
           /\ data'[i][4] = current_level_3_desc
      /\ (Added # {} \/ DataCandidate(line')) => ContextUnchanged ]_vars

\* C5 witness: a record emitted by the last step under a context set by
\* two earlier header lines.
C5_Witness ==
  /\ Len(data) = 1
  /\ n = 3
  /\ DataCandidate(line)
  /\ data[1][1] # <<>>
  /\ data[1][2] # <<>> \/ data[1][3] # <<>>
  /\ data[1][1] = current_level_1
  /\ data[1][2] = current_level_2

\* A data-row candidate that the decoder accepts: the pattern matches with
\* an id or a numeric code.
AcceptedLine(l) ==
  /\ DataCandidate(l)
  /\ data_pattern(l) # None
  /\ data_pattern(l)[1] # None \/ data_pattern(l)[2] # None

\* C6: each step leaves the table unchanged or adds exactly one record at
\* its end, keeping the earlier records as they were; the added record is
\* made of pieces of the line of that step; an accepted data line always
\* adds a record, also when an equal record is already in the table.
C6_AppendOnly ==
  [][ /\ \/ data' = data
         \/ /\ Len(data') = Len(data) + 1
            /\ SubSeq(data', 1, Len(data)) = data
            /\ Contains(line', data'[Len(data')][5])
            /\ Contains(line', data'[Len(data')][6])
            /\ Contains(line', data'[Len(data')][7])
      /\ AcceptedLine(line') <=> Len(data') = Len(data) + 1 ]_vars

\* C6 witness: the same accepted line fed twice has given two equal
\* records after an earlier, different record.
C6_Witness ==
  /\ Len(data) = 3
  /\ data[1] # data[2]
  /\ data[2] = data[3]

\* C7: a line that is empty after trimming or contains "PAGE" or
\* "Deloitte India Management Reporting" changes neither the context nor
\* the table, whatever pattern it would otherwise match.
C7_SkipFrame ==
  [][ ( \/ line' = <<>>
        \/ Contains(line', PAGE)
        \/ Contains(line', REPORT_TITLE) ) =>
      (ContextUnchanged /\ data' = data) ]_vars

\* C7 witness: a skipped line with the shape of a Level-1 header processed
\* under a context it would have reset and after a record.
C7_Witness ==
  /\ Contains(line, PAGE)
  /\ level1_pattern(line)
  /\ current_level_2 # <<>>
  /\ Len(data) = 1

\* The first whitespace-delimited token of the description the data-row
\* pattern captures in l.
DescToken(l) ==
  LET desc == Strip(data_pattern(l)[3])
  IN  Slice(desc, 1, RunNot(desc, 1, Space) - 1)

\* The description the data-row pattern captures in l, after its first
\* token.
DescRest(l) ==
  LET desc == Strip(data_pattern(l)[3])
  IN  TextFrom(desc, RunNot(desc, 1, Space))

\* A data-row line whose match has an id and no numeric code and whose
\* description starts with a token of 8 or more digits.
FusedCodeLine(l) ==
  /\ DataCandidate(l)
  /\ data_pattern(l) # None
  /\ data_pattern(l)[1] # None
  /\ data_pattern(l)[2] = None
  /\ IsDigitStr(DescToken(l))
  /\ Len(DescToken(l)) >= 8

\* C8: for every data-row line with an id, no numeric code and a
\* description whose first token is 8 or more digits, the record added has
\* that token as numeric code and the trimmed remainder as description,
\* also when the description is the digit token alone.
C8_FallbackPromotes ==
  [][ FusedCodeLine(line') =>
        /\ Len(data') = Len(data) + 1
        /\ data'[Len(data')][6] = DescToken(line')
        /\ data'[Len(data')][7] = DescRest(line') ]_vars

\* C9: the numeric code of every record is empty or is 8 or more digits.
C9_NumericCodeShape ==
  \A i \in 1..Len(data) :
    \/ data[i][6] = <<>>
    \/ /\ Len(data[i][6]) >= 8
       /\ \A k \in 1..Len(data[i][6]) : data[i][6][k] \in Digit

\* C9 witness: the table holds a numeric code taken by the data-row
\* pattern and one promoted out of the description.
C9_Witness ==
  /\ Len(data) = 2
  /\ data[1][6] # <<>>
  /\ data[2][6] # <<>>
  /\ FusedCodeLine(line)

\* C10: a finished conversion reports success only with at least one
\* record in the table; text extracted with no record decoded gives the
\* failure "Could not parse any structured data"; a failure never comes
\* with a written Excel file.
C10_NoEmptySuccess ==
  pc = "done" =>
    /\ result[1] = TRUE => Len(data_df) >= 1
    /\ (~(raw_text = None \/ raw_text[1] = <<>>) /\ Len(data_df) = 0) =>
         result = <<FALSE, NO_DATA>>
    /\ result[1] = FALSE => ~excel_written

\* C10 witness: a conversion that extracted text, decoded no record and
\* has returned.
C10_Witness ==
  /\ pc = "done"
  /\ raw_text # None
  /\ raw_text[1] # <<>>
  /\ Len(full_text) >= 2
  /\ data_df = <<>>
  /\ result = <<FALSE, NO_DATA>>

\* The document gave no text: the file is missing or unreadable, or the
\* extraction is over and every fragment it collected is empty.
ZeroText ==
  /\ pc \in {"extracted", "parsed", "done"}
  /\ \/ pdf \in {"missing", "corrupt"}
     \/ \A i \in 1..Len(full_text) : full_text[i] = <<>>

\* C11: when the document is missing, cannot be opened or yields zero text
\* (every fragment empty after trimming, for any number of pages and
\* fragments), the parser is never run and the conversion fails with the
\* extraction-failure reason.
C11_ZeroTextFails ==
  ZeroText =>
    /\ pc # "parsed"
    /\ pc = "done" => result = <<FALSE, EXTRACT_FAILED>>

\* The first k characters of l are digits and the next one is whitespace.
DigitsThenSpace(l, k) ==
  /\ Len(l) > k
  /\ \A i \in 1..k : l[i] \in Digit
  /\ l[k + 1] \in Space

\* l starts with 3 digits, ".", one or more digits, and whitespace.
DottedThenSpace(l) ==
  /\ Len(l) >= 6
  /\ \A i \in 1..3 : l[i] \in Digit
  /\ l[4] = "."
  /\ l[5] \in Digit
  /\ Run(l, 5, Digit) <= Len(l)
  /\ l[Run(l, 5, Digit)] \in Space

\* The five classes of a trimmed line, by the shape of the line alone.
LineClass(l, c) ==
  CASE c = "Skip" -> SkipMarked(l)
    [] c = "Level1Header" -> ~SkipMarked(l) /\ DigitsThenSpace(l, 3)
    [] c = "Level2Header" -> ~SkipMarked(l) /\ DottedThenSpace(l)
    [] c = "Level3Header" -> ~SkipMarked(l) /\ DigitsThenSpace(l, 4)
    [] c = "DataRow" ->
         /\ ~SkipMarked(l)
         /\ ~DigitsThenSpace(l, 3) /\ ~DottedThenSpace(l) /\ ~DigitsThenSpace(l, 4)

LineClasses == {"Skip", "Level1Header", "Level2Header", "Level3Header", "DataRow"}

\* C14: each trimmed line belongs to exactly one of the five classes and
\* the step makes the transition of that class only: a skipped line
\* changes nothing, a Level-1 header sets current_level_1 and adds no
\* record, a line starting with 3 digits, "." and digits leaves
\* current_level_1 alone, a line starting with 4 digits leaves
\* current_level_1 and current_level_2 alone, no header line adds a
\* record, and a data-row candidate leaves the context alone.
C14_OneClassOneTransition ==
  [][ /\ Cardinality({c \in LineClasses : LineClass(line', c)}) = 1
      /\ LineClass(line', "Skip") => (ContextUnchanged /\ data' = data)
      /\ LineClass(line', "Level1Header") =>
           /\ current_level_1' = TextFrom(line', 4)
           /\ SublevelsEmpty'
           /\ data' = data
      /\ LineClass(line', "Level2Header") =>
           /\ current_level_1' = current_level_1
           /\ current_level_2' = TextFrom(line', Run(line', 5, Digit))
           /\ data' = data
      /\ LineClass(line', "Level3Header") =>
           /\ current_level_1' = current_level_1
           /\ current_level_2' = current_level_2
           /\ current_level_3_code' = Slice(line', 1, 4)
           /\ data' = data
      /\ LineClass(line', "DataRow") => ContextUnchanged ]_vars

\* C14 witness: a Level-1, a Level-2 and a Level-3 header in a row, each
\* one having changed its own level only and none having added a record.
C14_Witness ==
  /\ n = 3
  /\ LineClass(line, "Level3Header")
  /\ current_level_1 # <<>>
  /\ current_level_2 # <<>>
  /\ current_level_3_code = Slice(line, 1, 4)
  /\ data = <<>>

\* The examples of lines that only partly resemble a header or a data row:
\* a bare numeric prefix with nothing after it, and an id followed by a
\* numeric code shorter than 8 digits.
PartialLines ==
  { <<"0", "0", "1">>,
    <<"0", "0", "1", ".", "1">>,
    <<"4", "0", "1", "0">>,
    CADTA \o <<" ", "-", " ">> \o NUM7 \o <<" ", "X", " ", "d">> }

\* C15: a line that matches no header pattern and fails the data-row
\* pattern, a bare numeric prefix or an id with a numeric code shorter than
\* 8 digits included, leaves the context and the table unchanged, and the
\* loop goes on to the next line.
C15_NoiseFrame ==
  [][ ( \/ line' \in PartialLines
        \/ DataCandidate(line') /\ data_pattern(line') = None ) =>
        /\ ContextUnchanged
        /\ data' = data
        /\ n' = n + 1 ]_vars

\* C15 witness: a line with a 7-digit numeric code has been processed
\* after a Level-1 header and a data row, whose context and record are
\* still there.
C15_Witness ==
  /\ n = 3
  /\ line = CADTA \o <<" ", "-", " ">> \o NUM7 \o <<" ", "X", " ", "d">>
  /\ current_level_1 # <<>>
  /\ Len(data) = 1
  /\ data[1][1] = current_level_1

\* C17: when convert_pdf_to_excel returns success, the Excel file at
\* excel_path has been written; a failure while saving the table is
\* reported as a failure of the conversion.
C17_SuccessMeansWritten ==
  (pc = "done" /\ result[1] = TRUE) => excel_written

\* bs is in ascending vertical position, ties in ascending horizontal
\* position.
ReadingOrder(bs) ==
  \A i, j \in 1..Len(bs) :
    i < j => \/ bs[i].y0 < bs[j].y0
             \/ bs[i].y0 = bs[j].y0 /\ bs[i].x0 <= bs[j].x0

\* as and bs hold the same blocks, each as many times.
SameBlocks(as, bs) ==
  /\ Len(as) = Len(bs)
  /\ \A i \in 1..Len(as) :
       Cardinality({k \in 1..Len(as) : as[k] = as[i]})
         = Cardinality({k \in 1..Len(bs) : bs[k] = as[i]})

\* f is t without its leading and trailing whitespace.
IsTrimOf(f, t) ==
  /\ f = <<>> \/ (f[1] \notin Space /\ f[Len(f)] \notin Space)
  /\ \E i \in 1..(Len(t) + 1) :
       /\ Slice(t, i, i + Len(f) - 1) = f
       /\ \A k \in 1..Len(t) : (k < i \/ k >= i + Len(f)) => t[k] \in Space

\* C16: the extractor puts the fragments of a page after those of the
\* pages before it, in ascending vertical position with ties in ascending
\* horizontal position, whatever the order the page returned them in, and
\* every fragment is trimmed.
C16_ReadingOrder ==
  [][ /\ pc' = "sorted" =>
           /\ SameBlocks(page_blocks', blocks')
           /\ ReadingOrder(blocks')
      /\ pc = "sorted" =>
           /\ Len(full_text') = Len(full_text) + Len(blocks)
           /\ \A i \in 1..Len(full_text) : full_text'[i] = full_text[i]
           /\ \A k \in 1..Len(blocks) :
                IsTrimOf(full_text'[Len(full_text) + k], blocks[k].text)
      /\ pc # "sorted" => full_text' = full_text ]_vars

\* C16 witness: the second page returned two blocks of the same vertical
\* position right to left, one of them with whitespace around its text;
\* they are now sorted, after the fragments of the first page.
C16_Witness ==
  /\ pc = "sorted"
  /\ page_num = 1
  /\ Len(full_text) = 2
  /\ Len(blocks) = 2
  /\ blocks # page_blocks
  /\ blocks[1].y0 = blocks[2].y0
  /\ blocks[1].x0 < blocks[2].x0
  /\ blocks[1].text # Strip(blocks[1].text)

\* What the conversion of request r gives on its own upload, no other
\* request running: the table and the failure message.
Alone(r) == convert_text(extract_text_from_pdf(handler[r].file))

\* The steps of a request between its conversion and its response.
Converted == {"save_excel", "remove_pdf", "read_excel", "remove_excel", "respond"}

\* C13: with the steps of two requests interleaved in any way, each
\* conversion's table, its failure message and the file it sends back are
\* those of its own upload converted alone, and the requests' temporary
\* paths are all different.
C13_Isolation ==
  /\ \A r \in Requests :
       /\ handler[r].pc \in Converted =>
            /\ handler[r].data_df = Alone(r).data_df
            /\ ~handler[r].success => handler[r].message = Alone(r).message
       /\ (handler[r].pc = "done" /\ handler[r].response[2] = "Conversion failed") =>
            handler[r].response[3] = Alone(r).message
       /\ (handler[r].pc = "done" /\ handler[r].response[1] = "download") =>
            handler[r].response[3] \in
              {Group(ExcelFile(Alone(r).data_df)), Group(TRUNCATED)}
  /\ \A r1, r2 \in Requests :
       (r1 # r2 /\ handler[r1].pc # "idle" /\ handler[r2].pc # "idle") =>
         Cardinality({handler[r1].pdf_path, handler[r1].excel_path,
                      handler[r2].pdf_path, handler[r2].excel_path}) = 4

\* C13 witness: two uploads of the same name and different content, both
\* converted and both with their PDF and Excel files in the folder at the
\* same time.
C13_Witness ==
  /\ handler[1].pc = "remove_pdf"
  /\ handler[2].pc = "remove_pdf"
  /\ handler[1].base_name = handler[2].base_name
  /\ handler[1].data_df # <<>>
  /\ handler[2].data_df # <<>>
  /\ handler[1].data_df # handler[2].data_df
  /\ \A r \in Requests :
       /\ upload_folder[handler[r].pdf_path] = handler[r].file
       /\ upload_folder[handler[r].excel_path] = Group(ExcelFile(handler[r].data_df))

\* C18: when a request that reached file.save has returned its response
\* (download, failed conversion or error), neither its temporary PDF nor
\* its temporary Excel file is in the upload folder.
C18_NoTempFileLeft ==
  \A r \in Requests :
    handler[r].pc = "done" =>
      /\ upload_folder[handler[r].pdf_path] = None
      /\ upload_folder[handler[r].excel_path] = None

\* C18 witness: one request ended in the except branch after its Excel
\* file was written, another one failed in file.save, and both have
\* returned.
C18_Witness ==
  /\ handler[1].pc = "done"
  /\ handler[1].error = "read failed"
  /\ handler[2].pc = "done"
  /\ handler[2].error = "save failed"

====
